---- MODULE Spec2Model ----
(***************************************************************************)
(* GoldSentinel (gold_sentinel.py): one scheduled run searches the web,    *)
(* asks an AI model for a JSON verdict, and on a truthy found_new_update   *)
(* posts a webhook alert and prepends the verdict to data/history.json.    *)
(* The model follows main() statement by statement across several runs of  *)
(* the process, which share only the history file.                         *)
(***************************************************************************)
EXTENDS Integers, Sequences, FiniteSets, TLC

\* ------------------------------------------------------------------ bounds
MaxRuns == 2        \* process invocations after the first one
MaxSnippets == 2    \* search results returned by the provider in one call
FlushRecords == 20  \* records that reach the disk in one flush of the file buffer

\* --------------------------------------------------------------- constants
HistoryCap == 50    \* history[:50]
Red == 15158332
Green == 3066993

\* Exit statuses of the process.
ExitOk == "0"           \* main() returned
ExitError == "1"        \* exit(1), or an uncaught exception's traceback
ExitKilled == "killed"  \* the process was killed from outside
Running == "running"

Min(a, b) == IF a < b THEN a ELSE b

\* ------------------------------------------------------------ JSON values
\* A JSON value as json.loads returns it.  t is the Python type; an object
\* (dict) carries the keys main() and send_alert() read:
\*   fnu  found_new_update: "true", "false", "absent", "null", "zero" (0),
\*        "str" (a non-empty string such as "false")
\*   src  source_text: "absent" or the text
\*   gfk  gold_forecast's type: "absent", "null", "num", "str"
\*   gfs  gold_forecast's text
Obj(fnu, src, gfk, gfs) ==
    [t |-> "dict", fnu |-> fnu, src |-> src, gfk |-> gfk, gfs |-> gfs]

NonObj(t) == [t |-> t, fnu |-> "absent", src |-> "absent", gfk |-> "absent", gfs |-> ""]

\* {"found_new_update": False}
FalseResult == Obj("false", "absent", "absent", "")

\* The JSON documents the AI model may answer with, one token per document.
DocOf ==
    ( "D_bear"    :> Obj("true", "s1", "str", "Bearish")
   @@ "D_bull"    :> Obj("true", "s2", "str", "Bullish")
   @@ "D_strong"  :> Obj("true", "s1", "str", "Very Bearish")
   @@ "D_nogf"    :> Obj("str",  "s2", "absent", "")
   @@ "D_gfnull"  :> Obj("true", "s1", "null", "")
   @@ "D_gfnum"   :> Obj("true", "s1", "num", "")
   @@ "D_nosrc"   :> Obj("true", "absent", "str", "Bullish")
   @@ "D_false"   :> Obj("false", "absent", "absent", "")
   @@ "D_zero"    :> Obj("zero", "s1", "str", "Bearish")
   @@ "D_empty"   :> Obj("absent", "absent", "absent", "")
   @@ "D_array"   :> NonObj("list")
   @@ "D_null"    :> NonObj("NoneType")
   @@ "D_string"  :> NonObj("str") )

DocTokens == DOMAIN DocOf

\* Text is a sequence of tokens: a code fence, the word json, whitespace,
\* a word that is no JSON, or one complete JSON document.
Fence == "FENCE"   \* three backquotes
JsonWord == "json"
Space == "\n"
Junk == "oops"
Tokens == {Fence, JsonWord, Space, Junk} \cup DocTokens

\* --------------------------------------------------------- str operations
\* s.replace(FENCE + 'json', ''): left to right, non-overlapping, one pass.
RECURSIVE ReplaceFenceJson(_)
ReplaceFenceJson(s) ==
    IF Len(s) = 0 THEN <<>>
    ELSE IF Len(s) >= 2 /\ s[1] = Fence /\ s[2] = JsonWord
         THEN ReplaceFenceJson(SubSeq(s, 3, Len(s)))
         ELSE <<s[1]>> \o ReplaceFenceJson(Tail(s))

\* s.replace(FENCE, '')
RECURSIVE ReplaceFence(_)
ReplaceFence(s) ==
    IF Len(s) = 0 THEN <<>>
    ELSE IF s[1] = Fence THEN ReplaceFence(Tail(s))
         ELSE <<s[1]>> \o ReplaceFence(Tail(s))

RECURSIVE LStrip(_)
LStrip(s) == IF Len(s) > 0 /\ s[1] = Space THEN LStrip(Tail(s)) ELSE s

RECURSIVE RStrip(_)
RStrip(s) ==
    IF Len(s) > 0 /\ s[Len(s)] = Space THEN RStrip(SubSeq(s, 1, Len(s) - 1)) ELSE s

\* s.strip()
Strip(s) == LStrip(RStrip(s))

\* response.text.replace(FENCE + 'json', '').replace(FENCE, '').strip()
CleanText(s) == Strip(ReplaceFence(ReplaceFenceJson(s)))

\* json.loads(text): whitespace around the one document is skipped; anything
\* else (no document, a bare word, text after the document) raises.
JsonLoads(text) ==
    LET body == Strip(text)
    IN  IF Len(body) = 1 /\ body[1] \in DocTokens
        THEN [ok |-> TRUE, value |-> DocOf[body[1]]]
        ELSE [ok |-> FALSE, value |-> FalseResult]

\* "found_new_update" in analysis, whatever the value
TruthyAnyValue(fnu) == fnu # "absent"

\* Python truthiness of found_new_update as analysis.get(...) returns it
\* (None when the key is absent).
Truthy(fnu) == fnu \in {"true", "str"}

\* ---------------------------------------------------------------- strings
\* The characters of the gold_forecast texts, for the substring test.
CharsOf ==
    ( "Bearish"      :> <<"B", "e", "a", "r", "i", "s", "h">>
   @@ "Bullish"      :> <<"B", "u", "l", "l", "i", "s", "h">>
   @@ "Very Bearish" :> <<"V", "e", "r", "y", " ", "B", "e", "a", "r", "i", "s", "h">>
   @@ ""             :> <<>> )

\* needle in hay, for two str
Contains(needle, hay) ==
    \E i \in 1..(Len(hay) - Len(needle) + 1) :
        SubSeq(hay, i, i + Len(needle) - 1) = needle

\* "Bearish" in data.get('gold_forecast', ''): a substring test on a str
\* (the default '' when the key is absent), TypeError on None and on a number.
BearishIn(data) ==
    CASE data.gfk = "absent" -> [raised |-> FALSE, value |-> Contains(CharsOf["Bearish"], CharsOf[""])]
      [] data.gfk = "str"    -> [raised |-> FALSE, value |-> Contains(CharsOf["Bearish"], CharsOf[data.gfs])]
      [] OTHER               -> [raised |-> TRUE, value |-> FALSE]

\* color = 15158332 if "Bearish" in ... else 3066993
Color(data) == IF BearishIn(data).value THEN Red ELSE Green

\* The embed send_alert builds: description, colour, the Gold Forecast field.
NoEmbed == [description |-> "none", color |-> 0, forecast |-> "none"]

Embed(data) ==
    [description |-> data.src,
     color |-> Color(data),
     forecast |-> IF data.gfk = "absent" THEN "N/A"
                  ELSE IF data.gfk = "str" THEN data.gfs ELSE data.gfk]

\* history[-50:], the newest dropped instead of the oldest
TruncateTail(h) == SubSeq(h, Len(h) - Min(Len(h), HistoryCap) + 1, Len(h))

\* history[:50]
Truncate(h) == SubSeq(h, 1, Min(Len(h), HistoryCap))

\* history.append(analysis)
InsertAtEnd(h, rec) == h \o <<rec>>

\* history.insert(0, analysis)
Insert(h, rec) == <<rec>> \o h

\* ------------------------------------------------------------------ state
VARIABLES
    pc,          \* the statement the process is at
    envOk,       \* both GEMINI_API_KEY and DISCORD_WEBHOOK_URL are set
    exitStatus,  \* the process's exit status, Running until it ends
    runs,        \* invocations of the process started after the first
    news,        \* news_data: the lines get_latest_news joined
    aiResp,      \* the outcome of model.generate_content inside the analyzer
    analysis,    \* the value analyze_with_gemini returned
    history,     \* main's history variable
    embed,       \* send_alert's embed
    out,         \* the records json.dump is writing
    file,        \* data/history.json on disk
    dirExists,   \* the directory data/ exists
    events,      \* this run's external calls and history steps, in order
    posts,       \* this run's webhook POST attempts
    alertState,  \* how this run's send_alert call went
    alerted,     \* every record send_alert was called with, over all runs
    priorFile,   \* the file as this run found it
    priorDir,    \* the directory as this run found it
    loaded,      \* the history as this run loaded it from the file
    fullLog,     \* every record saved since the last load of a list, newest first, then that list
    initLen,     \* the length of the list the log started from
    nSaves       \* completed saves the log accounts for

vars == <<pc, envOk, exitStatus, runs, news, aiResp, analysis, history, embed, out,
          file, dirExists, events, posts, alertState, alerted, priorFile, priorDir, loaded,
          fullLog, initLen, nSaves>>

procVars == <<news, aiResp, analysis, history, embed, out>>
ghostLog == <<fullLog, initLen, nSaves>>
runGhost == <<priorFile, priorDir, loaded, alertState>>

NoResp == [kind |-> "none", text |-> <<>>]
NoAnalysis == NonObj("unset")
NoHistory == [kind |-> "unset", recs |-> <<>>]

\* The history file: missing, a JSON array of records ("list"), some other
\* JSON value ("nonlist"), text that is no JSON ("garbage"), or the first
\* recs records of an array whose writing was cut short ("partial").
FileOf(kind, recs) == [kind |-> kind, recs |-> recs]

\* Records an earlier run can have saved.
PatternList(n) ==
    [i \in 1..n |-> IF i % 2 = 1 THEN DocOf["D_bear"] ELSE DocOf["D_bull"]]

InitFiles ==
    {FileOf("missing", <<>>), FileOf("garbage", <<>>), FileOf("nonlist", <<>>)}
    \cup {FileOf("list", PatternList(n)) : n \in {0, 1, HistoryCap - 1, HistoryCap}}

\* ------------------------------------------------------------ the search
SearchResultOk == [title |-> "t1", body |-> "b1"]
SearchResultNoBody == [title |-> "t2", body |-> "KeyError"]

AllSeqs(S, n) == UNION {[1..k -> S] : k \in 0..n}

SearchOutcomes ==
    {[raised |-> TRUE, results |-> <<>>]}
    \cup {[raised |-> FALSE, results |-> r] :
            r \in AllSeqs({SearchResultOk, SearchResultNoBody}, MaxSnippets)}

\* get_latest_news(): the joined lines, "" on no results and on any exception
\* (the provider's, or the KeyError of a result without title or body).
GetLatestNews(o) ==
    IF o.raised \/ Len(o.results) = 0 THEN <<>>
    ELSE IF \E i \in 1..Len(o.results) : o.results[i].body = "KeyError" THEN <<>>
    ELSE [i \in 1..Len(o.results) |-> <<"- ", o.results[i].title, ": ", o.results[i].body>>]

\* ------------------------------------------------------- the AI responses
Fenced(d) == <<Fence, JsonWord, Space, d, Space, Fence>>

Responses ==
    {<<d>> : d \in DocTokens}
    \cup {Fenced("D_bear"), Fenced("D_false"), Fenced(Junk)}
    \cup {<<Fence, Space, "D_bull", Fence>>, <<Space, "D_strong", Space>>}
    \cup {<<>>, <<Junk>>, <<"D_bear", "D_bear">>, <<JsonWord, "D_bear">>,
          <<Fence, Fence, JsonWord, JsonWord, "D_bear">>}

AiOutcomes ==
    {[kind |-> "raised", text |-> <<>>]} \cup {[kind |-> "text", text |-> t] : t \in Responses}

\* The try block of analyze_with_gemini: the parsed response, and
\* {"found_new_update": False} on any exception.
AnalyzeResult(resp) ==
    IF resp.kind = "raised" THEN FalseResult
    ELSE LET r == JsonLoads(CleanText(resp.text))
         IN  IF r.ok THEN r.value ELSE FalseResult

\* -------------------------------------------------------------- the steps
Init ==
    /\ pc = "boot"
    /\ envOk \in BOOLEAN
    /\ exitStatus = Running
    /\ runs = 0
    /\ news = <<>>
    /\ aiResp = NoResp
    /\ analysis = NoAnalysis
    /\ history = NoHistory
    /\ embed = NoEmbed
    /\ out = <<>>
    /\ file \in InitFiles
    /\ dirExists = (file.kind # "missing")
    /\ events = <<>>
    /\ posts = <<>>
    /\ alertState = "none"
    /\ alerted = {}
    /\ priorFile = file
    /\ priorDir = dirExists
    /\ loaded = NoHistory
    /\ fullLog = file.recs
    /\ initLen = Len(file.recs)
    /\ nSaves = 0

\* An uncaught exception: the traceback is printed and the process exits 1.
Uncaught ==
    /\ pc' = "exited"
    /\ exitStatus' = ExitError

\* Lines 9-14: the two environment variables, exit(1) on a KeyError.
ConfigCheck ==
    /\ pc = "boot"
    /\ IF envOk
       THEN pc' = "search" /\ exitStatus' = exitStatus
       ELSE Uncaught
    /\ UNCHANGED <<envOk, runs, procVars, file, dirExists, events, posts, alerted,
                   runGhost, ghostLog>>

\* Line 104: news_data = get_latest_news()
Search ==
    /\ pc = "search"
    /\ \E o \in SearchOutcomes : news' = GetLatestNews(o)
    /\ events' = Append(events, "search")
    /\ pc' = "analyze"
    /\ UNCHANGED <<envOk, exitStatus, runs, aiResp, analysis, history, embed, out,
                   file, dirExists, posts, alerted, runGhost, ghostLog>>

\* Lines 41-42: the analyzer's short circuit on empty text.
AnalyzeEntry ==
    /\ pc = "analyze"
    /\ IF Len(news) = 0
       THEN analysis' = FalseResult /\ pc' = "process"
       ELSE analysis' = analysis /\ pc' = "ai_call"
    /\ UNCHANGED <<envOk, exitStatus, runs, news, aiResp, history, embed, out,
                   file, dirExists, events, posts, alerted, runGhost, ghostLog>>

\* Line 73: response = model.generate_content(prompt), which may raise.
AICall ==
    /\ pc = "ai_call"
    /\ \E r \in AiOutcomes : aiResp' = r
    /\ events' = Append(events, "ai")
    /\ pc' = "ai_parse"
    /\ UNCHANGED <<envOk, exitStatus, runs, news, analysis, history, embed, out,
                   file, dirExists, posts, alerted, runGhost, ghostLog>>

\* Lines 74-78: strip the fences, parse, return.
ParseResponse ==
    /\ pc = "ai_parse"
    /\ analysis' = AnalyzeResult(aiResp)
    /\ pc' = "process"
    /\ UNCHANGED <<envOk, exitStatus, runs, news, aiResp, history, embed, out,
                   file, dirExists, events, posts, alerted, runGhost, ghostLog>>

\* Line 110: if analysis.get("found_new_update"), AttributeError when the
\* analyzer returned no dict; line 136 and the return of main() otherwise.
Process ==
    /\ pc = "process"
    /\ IF analysis.t # "dict" THEN Uncaught
       ELSE /\ pc' = IF Truthy(analysis.fnu) THEN "load" ELSE "return"
            /\ exitStatus' = exitStatus
    /\ aiResp' = NoResp
    /\ UNCHANGED <<envOk, runs, news, analysis, history, embed, out, file, dirExists,
                   events, posts, alerted, runGhost, ghostLog>>

\* Lines 112-118: json.load of the file when it exists, [] on any exception.
LoadFile(f) ==
    CASE f.kind = "list"    -> [kind |-> "list", recs |-> f.recs]
      [] f.kind = "nonlist" -> [kind |-> "nonlist", recs |-> <<>>]
      [] OTHER              -> [kind |-> "list", recs |-> <<>>]

LoadHistory ==
    /\ pc = "load"
    /\ history' = LoadFile(file)
    /\ loaded' = LoadFile(file)
    /\ events' = Append(events, "load")
    /\ IF file.kind \in {"list", "nonlist"}
       THEN UNCHANGED ghostLog
       ELSE fullLog' = <<>> /\ initLen' = 0 /\ nSaves' = 0
    /\ pc' = "announce"
    /\ UNCHANGED <<envOk, exitStatus, runs, news, aiResp, analysis, embed, out, file,
                   dirExists, posts, alerted, priorFile, priorDir, alertState>>

\* Line 127: print(... analysis['source_text'] ...), KeyError without the key.
Announce ==
    /\ pc = "announce"
    /\ IF analysis.src = "absent" THEN Uncaught
       ELSE pc' = "alert_build" /\ exitStatus' = exitStatus
    /\ UNCHANGED <<envOk, runs, procVars, file, dirExists, events, posts, alerted,
                   runGhost, ghostLog>>

\* Lines 80-94: send_alert(analysis) up to the try block; the colour test is
\* outside it, so its TypeError leaves send_alert and main().
AlertBuild ==
    /\ pc = "alert_build"
    /\ alerted' = alerted \cup {analysis}
    /\ IF BearishIn(analysis).raised
       THEN Uncaught /\ embed' = embed /\ alertState' = "build_raised"
       ELSE /\ embed' = Embed(analysis)
            /\ alertState' = "built"
            /\ pc' = "alert_post"
            /\ exitStatus' = exitStatus
    /\ UNCHANGED <<envOk, runs, news, aiResp, analysis, history, out, file, dirExists,
                   events, posts, priorFile, priorDir, loaded, ghostLog>>

\* Where send_alert goes after the POST: it returns either way.
AfterPostRetry(outcome) ==
    IF outcome = "raised" /\ Len(posts) = 0 THEN "alert_post" ELSE "insert"

AfterPost(outcome) == "insert"

\* Lines 96-100: one requests.post; an exception is printed and dropped.
AlertPost ==
    /\ pc = "alert_post"
    /\ \E outcome \in {"sent", "raised"} :
        /\ posts' = Append(posts, [embed |-> embed, outcome |-> outcome])
        /\ alertState' = outcome
        /\ pc' = AfterPost(outcome)
    /\ events' = Append(events, "post")
    /\ UNCHANGED <<envOk, exitStatus, runs, procVars, file, dirExists, alerted,
                   priorFile, priorDir, loaded, ghostLog>>

\* Line 131: history.insert(0, analysis); AttributeError when json.load
\* returned something that is no list.
InsertRecord ==
    /\ pc = "insert"
    /\ IF history.kind # "list"
       THEN Uncaught /\ history' = history /\ events' = events
       ELSE /\ history' = [kind |-> "list", recs |-> Insert(history.recs, analysis)]
            /\ events' = Append(events, "insert")
            /\ pc' = "mkdirs"
            /\ exitStatus' = exitStatus
    /\ UNCHANGED <<envOk, runs, news, aiResp, analysis, embed, out, file, dirExists,
                   posts, alerted, runGhost, ghostLog>>

\* Line 132: os.makedirs("data", exist_ok=True)
MakeDirs ==
    /\ pc = "mkdirs"
    /\ dirExists' = TRUE
    /\ pc' = "open"
    /\ UNCHANGED <<envOk, exitStatus, runs, procVars, file, events, posts, alerted,
                   runGhost, ghostLog>>

\* Line 133: open(HISTORY_FILE, 'w') creates the file or truncates it to
\* nothing; line 134 then serialises history[:50].
OpenWrite ==
    /\ pc = "open"
    /\ file' = FileOf("partial", <<>>)
    /\ out' = Truncate(history.recs)
    /\ events' = Append(events, "open")
    /\ pc' = "write"
    /\ UNCHANGED <<envOk, exitStatus, runs, news, aiResp, analysis, history, embed,
                   dirExists, posts, alerted, runGhost, ghostLog>>

\* Line 134: json.dump writes the array piece by piece through the file's
\* buffer; the disk holds a growing prefix of it.
WriteChunk ==
    /\ pc = "write"
    /\ Len(file.recs) < Len(out)
    /\ file' = FileOf("partial", SubSeq(out, 1, Min(Len(out), Len(file.recs) + FlushRecords)))
    /\ UNCHANGED <<pc, envOk, exitStatus, runs, procVars, dirExists, events, posts,
                   alerted, runGhost, ghostLog>>

\* The end of the with block: the rest is flushed and the file is closed.
CloseWrite ==
    /\ pc = "write"
    /\ Len(file.recs) = Len(out)
    /\ file' = FileOf("list", out)
    /\ events' = Append(events, "write")
    /\ fullLog' = <<analysis>> \o fullLog
    /\ nSaves' = nSaves + 1
    /\ pc' = "return"
    /\ UNCHANGED <<envOk, exitStatus, runs, procVars, dirExists, posts, alerted,
                   runGhost, initLen>>

\* main() returns and the interpreter exits with status 0.
Exit ==
    /\ pc = "return"
    /\ pc' = "exited"
    /\ exitStatus' = ExitOk
    /\ UNCHANGED <<envOk, runs, procVars, file, dirExists, events, posts, alerted,
                   runGhost, ghostLog>>

\* The scheduler starts the process again: a fresh interpreter, the same disk.
NewRun ==
    /\ pc = "exited"
    /\ runs < MaxRuns
    /\ runs' = runs + 1
    /\ pc' = "boot"
    /\ exitStatus' = Running
    /\ envOk' \in BOOLEAN
    /\ news' = <<>>
    /\ aiResp' = NoResp
    /\ analysis' = NoAnalysis
    /\ history' = NoHistory
    /\ embed' = NoEmbed
    /\ out' = <<>>
    /\ events' = <<>>
    /\ posts' = <<>>
    /\ alertState' = "none"
    /\ priorFile' = file
    /\ priorDir' = dirExists
    /\ loaded' = NoHistory
    /\ UNCHANGED <<file, dirExists, alerted, ghostLog>>

\* The process is killed from outside (SIGKILL, power loss) wherever it is;
\* what reached the disk stays.
Kill ==
    /\ pc # "exited"
    /\ pc' = "exited"
    /\ exitStatus' = ExitKilled
    /\ UNCHANGED <<envOk, runs, procVars, file, dirExists, events, posts, alerted,
                   runGhost, ghostLog>>

Next ==
    \/ ConfigCheck
    \/ Search
    \/ AnalyzeEntry
    \/ AICall
    \/ ParseResponse
    \/ Process
    \/ LoadHistory
    \/ Announce
    \/ AlertBuild
    \/ AlertPost
    \/ InsertRecord
    \/ MakeDirs
    \/ OpenWrite
    \/ WriteChunk
    \/ CloseWrite
    \/ Exit
    \/ NewRun

Spec == Init /\ [][Next]_vars

NextCrash == Next \/ Kill

SpecCrash == Init /\ [][NextCrash]_vars

\* ------------------------------------------------------------- properties
IsPrefix(s, t) == Len(s) <= Len(t) /\ SubSeq(t, 1, Len(s)) = s

Has(s, e) == \E i \in 1..Len(s) : s[i] = e

\* The process ended by itself: main() returned, or exit(1), or a traceback.
Ended == pc = "exited" /\ exitStatus # ExitKilled

\* The steps of one run, in the order of main().
StepOrder == <<"search", "ai", "load", "post", "insert", "open", "write">>

\* What this run's save has to leave in the file: the record, then what was
\* loaded, cut after HistoryCap records.
ExpectedSave ==
    LET h == <<analysis>> \o loaded.recs
    IN  [i \in 1..Min(Len(h), HistoryCap) |-> h[i]]

\* gold_forecast is a str with "Bearish" inside
ForecastNamesBearish(data) == data.gfk = "str" /\ data.gfs \in {"Bearish", "Very Bearish"}

\* C1: after N completed saves, each of a record prepended to the loaded
\* history, the file is a list of min(N + initial length, 50) records, never
\* more than 50: the newest of everything saved and initially present, newest
\* first, the oldest dropped; right after a save its first element is the
\* record the analyzer returned in that run.
C1_HistoryIsNewestFifty ==
    (nSaves >= 1 /\ file.kind = "list") =>
        /\ Len(file.recs) = Min(nSaves + initLen, HistoryCap)
        /\ Len(file.recs) <= HistoryCap
        /\ Len(fullLog) = nSaves + initLen
        /\ \A i \in 1..Len(file.recs) : file.recs[i] = fullLog[i]
        /\ (Has(events, "write") => file.recs[1] = analysis)

C1_Witness ==
    /\ pc = "exited"
    /\ nSaves >= 2
    /\ Len(fullLog) > HistoryCap
    /\ Has(events, "write")
    /\ fullLog[1] # fullLog[2]

\* C2: once the analyzer has returned a result whose found_new_update is
\* false or absent, the run makes no webhook POST and leaves the history file
\* and its directory as it found them; no record with found_new_update false
\* is passed to send_alert or is in the history file.
C2_NoUpdateNoEffect ==
    /\ (analysis.t # "unset" /\ analysis.fnu \in {"false", "absent"}) =>
          /\ posts = <<>>
          /\ alertState = "none"
          /\ file = priorFile
          /\ dirExists = priorDir
          /\ ~Has(events, "load")
    /\ \A d \in alerted : d.fnu # "false"
    /\ \A i \in 1..Len(file.recs) : file.recs[i].fnu # "false"

C2_Witness ==
    /\ pc = "exited"
    /\ exitStatus = ExitOk
    /\ analysis = FalseResult
    /\ Has(events, "ai")
    /\ posts = <<>>
    /\ file.kind = "list"
    /\ runs >= 1

\* C3 as claimed: whenever send_alert was called and failed, while building
\* the payload or while posting it, the run still saves the record as the
\* first element of the history file and exits with status 0.
C3_DispatchFailureNeverAborts ==
    (Ended /\ alertState \in {"build_raised", "raised"} /\ loaded.kind = "list") =>
        /\ exitStatus = ExitOk
        /\ file = FileOf("list", ExpectedSave)

\* C4 as claimed: the process exits with status 1 exactly when an environment
\* variable is missing, then before any search, AI or webhook call; every
\* other run ends with status 0.
C4_ExitOneOnlyForConfig ==
    Ended =>
        /\ (exitStatus = ExitError <=> ~envOk)
        /\ (envOk => exitStatus = ExitOk)
        /\ (~envOk => events = <<>> /\ posts = <<>>)

\* C5 as claimed: what analyze_with_gemini returns is always a mapping; for
\* empty text it is {found_new_update: false} with no AI call, and so it is
\* for a failed AI call and for a response that is no JSON once the fences
\* are stripped.
C5_AnalyzerReturnsMapping ==
    pc = "process" =>
        /\ analysis.t = "dict"
        /\ (Len(news) = 0 => analysis = FalseResult /\ ~Has(events, "ai"))
        /\ (aiResp.kind = "raised" => analysis = FalseResult)
        /\ ((aiResp.kind = "text" /\ ~JsonLoads(CleanText(aiResp.text)).ok)
               => analysis = FalseResult)

\* C6 as claimed: for every record send_alert is called with, the colour is
\* chosen without failing, red exactly when gold_forecast contains "Bearish"
\* and green for anything else, an absent, null or non-string value included.
C6_ColourNeverFails ==
    alertState # "none" =>
        /\ alertState # "build_raised"
        /\ embed.color = IF ForecastNamesBearish(analysis) THEN Red ELSE Green

\* C7: in every run of main() the steps happen in the order search, AI call,
\* load, webhook POST, prepend, open and write of the history file, each at
\* most once; the search is made exactly once; the POST comes after the AI
\* call returned; the write is the last step, after the POST attempt.
C7_FixedStepOrder ==
    /\ IsPrefix(events, StepOrder)
    /\ Len(posts) = (IF Has(events, "post") THEN 1 ELSE 0)
    /\ (envOk /\ pc \notin {"boot", "search"} => Len(events) >= 1 /\ events[1] = "search")
    /\ (~envOk => events = <<>>)
    /\ (Has(events, "post") => analysis.t = "dict" /\ pc \notin {"ai_call", "ai_parse"})
    /\ (Has(events, "write") => pc \in {"return", "exited"})

C7_Witness ==
    /\ pc = "exited"
    /\ events = StepOrder
    /\ posts[1].outcome = "raised"

\* C8 as claimed: in every run where the analyzer returns found_new_update
\* true, one alert is posted and the record is prepended to the history, also
\* when its source_text is that of the newest history entry.
C8_EveryUpdateAlertsAndSaves ==
    (Ended /\ analysis.t = "dict" /\ analysis.fnu = "true" /\ loaded.kind = "list") =>
        /\ Len(posts) = 1
        /\ file = FileOf("list", ExpectedSave)

\* The case C8 is about, where the code does what it says: the record has the
\* source_text of the newest entry, and is alerted and saved all the same.
C8_DuplicateSaved ==
    /\ Ended
    /\ Len(loaded.recs) >= 1
    /\ loaded.recs[1].src = analysis.src
    /\ Len(posts) = 1
    /\ file = FileOf("list", ExpectedSave)

\* C9 as claimed: an alerting run that finds the history file missing or
\* unparsable loads an empty history and goes on; after the run the file
\* holds exactly one record, the new one.
C9_UnreadableFileReplaced ==
    (Ended /\ Has(events, "load") /\ priorFile.kind \in {"missing", "garbage", "partial"}) =>
        /\ loaded = [kind |-> "list", recs |-> <<>>]
        /\ file = FileOf("list", <<analysis>>)

\* C10 as claimed: after a crash at any point of an alerting run the history
\* file holds the complete prior contents or the complete new contents.
C10_CrashLeavesOldOrNew ==
    (exitStatus = ExitKilled /\ Has(events, "load") /\ loaded.kind = "list") =>
        \/ file = priorFile
        \/ file = FileOf("list", ExpectedSave)

\* C10 amended: a crash before the file is opened for writing leaves the
\* prior contents; a crash between the open and the close leaves an empty or
\* partially written file, a prefix of the new contents; a crash after the
\* close leaves the complete new contents.
C10_CrashLeavesOldPrefixOrNew ==
    exitStatus = ExitKilled =>
        /\ ~Has(events, "open") => file = priorFile
        /\ (Has(events, "open") /\ ~Has(events, "write")) =>
              /\ file.kind = "partial"
              /\ IsPrefix(file.recs, ExpectedSave)
        /\ Has(events, "write") => file = FileOf("list", ExpectedSave)

C10_Witness ==
    /\ exitStatus = ExitKilled
    /\ priorFile.kind = "list"
    /\ Len(priorFile.recs) >= HistoryCap - 1
    /\ file.kind = "partial"
    /\ Len(file.recs) >= 1
    /\ Len(file.recs) < Len(ExpectedSave)
====
